---- MODULE Spec2Model ----
(***************************************************************************)
(* Model of target_s3_csv: the driver loop of main() over the events of    *)
(* process_message_stream(), the per-stream S3MultipartUploader and the    *)
(* multipart-upload side of the object store it talks to.                  *)
(*                                                                         *)
(* One action per message read from the input (the body of the driver's    *)
(* for loop together with the generator step that feeds it), one action    *)
(* per uploader finalized in the finally block, one for the final emit.    *)
(* Object-store calls fail nondeterministically (ClientError); the retry   *)
(* decorator has max_tries=1, so a failed call is raised at once.          *)
(***************************************************************************)
EXTENDS Integers, Sequences, FiniteSets, TLC

\* ------------------------------------------------------------------ bounds
MaxRecords == 3
MaxStates == 2
MaxPartRecords == 2
MaxFailures == 2

\* ------------------------------------------------------------------ inputs
Streams == {"t", "u"}
Keys == {"a", "b"}
\* Flattened rows as the driver receives them: ordered (key, value) pairs.
Rows == { << <<"a", "1">> >>, << <<"a", "2">>, <<"b", "3">> >> }
\* Checkpoint values carried by STATE messages: the tap's bookmark advances
\* with every STATE message it sends, so the n-th one carries bookmark n.
StateValues == { [bookmark |-> n] : n \in 1..MaxStates }
\* Outcome of validators[stream].validate(record).
Verdicts == {"valid", "ValidationError", "InvalidOperation"}
\* Python's None where an exception name is expected, and where the last
\* STATE event is expected.
None == "None"
NoState == [type |-> "None"]

VARIABLES
    pc,             \* "loop" | "finally" | "done": position in main()
    exc,            \* exception in flight / propagated out of main(), or None
    part_records,   \* config upload_batch_record_count
    schemas,        \* process_message_stream: stream -> registered (has validator)
    uploaders,      \* main: stream -> uploader object
    order,          \* insertion order of the uploaders dict
    fin,            \* finally block: index into order of the next uploader
    state_from_tap, \* main: last STATE event, or None
    stdout,         \* lines written by emit_state
    mpus,           \* object store: multipart uploads, UploadId = index
    last,           \* history: what the last step did
    added,          \* history: rows handed to add_record, per stream
    states,         \* history: one entry per STATE message read: its number
                    \*          in the input, its value, the rows added per
                    \*          stream before it, and whether an add_record
                    \*          flushed after it
    emitted,        \* history: one entry per line of stdout
    storeFailures   \* history: number of failed object-store calls

vars == << pc, exc, part_records, schemas, uploaders, order, fin,
           state_from_tap, stdout, mpus, last, added, states, emitted,
           storeFailures >>

\* -------------------------------------------------------------- sequences
KeysOf(row) == [i \in 1..Len(row) |-> row[i][1]]
KeySet(row) == {row[i][1] : i \in 1..Len(row)}
ValueAt(row, k) ==
    IF k \in KeySet(row)
    THEN row[CHOOSE i \in 1..Len(row) : row[i][1] = k][2]
    ELSE ""

\* --------------------------------------------------------------- emit_state
\* json.dumps of a checkpoint value and of a whole STATE message, as token
\* sequences.
DumpsValue(v) == << "{", "\"bookmark\"", ":", ToString(v.bookmark), "}" >>
DumpsMessage(o) ==
    << "{", "\"type\"", ":", o.type, ",", "\"value\"", ":" >>
        \o DumpsValue(o.value) \o << "}" >>
json_dumps(x) == IF "type" \in DOMAIN x THEN DumpsMessage(x) ELSE DumpsValue(x)

\* emit_state(state): the lines appended to stdout.
emit_state(state) == IF state # NoState THEN << json_dumps(state) >> ELSE << >>

\* ------------------------------------------------------ S3MultipartUploader
include_header_row == TRUE

NewUploader(mpu_id) ==
    [ mpu_id |-> mpu_id, parts |-> << >>, records |-> << >>,
      total_records |-> 0, total_bytes |-> 0 ]

\* csv.DictWriter(fieldnames=[*records[0]]) with the default
\* extrasaction='raise': a row carrying a key outside fieldnames raises
\* ValueError.
Fieldnames(records) == KeysOf(records[1])
CsvWritable(records) ==
    \A i \in 1..Len(records) : KeySet(records[i]) \subseteq KeySet(records[1])
CsvLine(row, fieldnames) ==
    [j \in 1..Len(fieldnames) |-> ValueAt(row, fieldnames[j])]

\* Mutant of WritesHeader: the header goes with the first upload attempt.
HeaderOnFirstAttempt(u) == include_header_row /\ u.total_bytes = 0

\* Whether transform_to_csv writes the header line.
WritesHeader(u) == include_header_row /\ Len(u.parts) = 0

\* transform_to_csv: the text as a sequence of lines, each a sequence of cells.
transform_to_csv(u) ==
    LET fieldnames == Fieldnames(u.records)
    IN  (IF WritesHeader(u) THEN << fieldnames >> ELSE << >>)
            \o [i \in 1..Len(u.records) |-> CsvLine(u.records[i], fieldnames)]

\* sys.getsizeof(data), abstracted to the number of lines; the opaque ETag
\* the store returns for a body.
SizeOf(data) == Len(data)
ETagOf(data) == Len(data)

\* Mutant of PartNumberOf: numbering from 0.
PartNumberFromZero(u) == Len(u.parts)

\* The part number upload() sends.
PartNumberOf(u) == Len(u.parts) + 1

\* Mutant of upload: the buffer is reset before the part is sent, so a failed
\* upload_part loses the rows.
upload_resetting_first(u, fail) ==
    LET part_number == PartNumberOf(u) IN
    IF Len(u.records) = 0
    THEN [ raised |-> "IndexError", u |-> u, sent |-> << >> ]
    ELSE IF ~CsvWritable(u.records)
    THEN [ raised |-> "ValueError", u |-> u, sent |-> << >> ]
    ELSE LET data == transform_to_csv(u)
             u1 == [u EXCEPT !.total_bytes = @ + SizeOf(data), !.records = << >>]
         IN  IF fail
             THEN [ raised |-> "ClientError", u |-> u1, sent |-> << >> ]
             ELSE [ raised |-> None,
                    u |-> [u1 EXCEPT
                             !.parts = Append(@, [PartNumber |-> part_number,
                                                  ETag |-> ETagOf(data)])],
                    sent |-> << [PartNumber |-> part_number, Body |-> data] >> ]

\* upload(): fail says whether s3.upload_part raises ClientError.
\* Result: the exception raised (or None), the uploader afterwards and the
\* part sent to the store (at most one).
upload(u, fail) ==
    LET part_number == PartNumberOf(u) IN
    IF Len(u.records) = 0
    THEN [ raised |-> "IndexError", u |-> u, sent |-> << >> ]
    ELSE IF ~CsvWritable(u.records)
    THEN [ raised |-> "ValueError", u |-> u, sent |-> << >> ]
    ELSE LET data == transform_to_csv(u)
             u1 == [u EXCEPT !.total_bytes = @ + SizeOf(data)]
         IN  IF fail
             THEN [ raised |-> "ClientError", u |-> u1, sent |-> << >> ]
             ELSE [ raised |-> None,
                    u |-> [u1 EXCEPT
                             !.parts = Append(@, [PartNumber |-> part_number,
                                                  ETag |-> ETagOf(data)]),
                             !.records = << >>],
                    sent |-> << [PartNumber |-> part_number, Body |-> data] >> ]

\* Mutant of ReachedThreshold: flush only once the threshold is exceeded.
ExceededThreshold(u) == Len(u.records) > part_records

\* The flush test of add_record.
ReachedThreshold(u) == Len(u.records) >= part_records

\* Mutant of add_record: the count reported is the threshold, not the number
\* of rows in the buffer at the flush.
add_record_reporting_threshold(u, record, fail) ==
    LET u1 == [u EXCEPT !.records = Append(@, record), !.total_records = @ + 1]
    IN  IF ReachedThreshold(u1)
        THEN LET r == upload(u1, fail)
             IN  [ raised |-> r.raised, u |-> r.u, sent |-> r.sent,
                   did_flush |-> (r.raised = None),
                   record_count |-> part_records ]
        ELSE [ raised |-> None, u |-> u1, sent |-> << >>,
               did_flush |-> FALSE, record_count |-> 0 ]

\* add_record(record): result of upload() plus the returned flag.
add_record(u, record, fail) ==
    LET u1 == [u EXCEPT !.records = Append(@, record), !.total_records = @ + 1]
    IN  IF ReachedThreshold(u1)
        THEN LET r == upload(u1, fail)
             IN  [ raised |-> r.raised, u |-> r.u, sent |-> r.sent,
                   did_flush |-> (r.raised = None),
                   record_count |-> Len(u1.records) ]
        ELSE [ raised |-> None, u |-> u1, sent |-> << >>,
               did_flush |-> FALSE, record_count |-> 0 ]

\* Mutant of complete: the rows still buffered are not flushed before the
\* commit.
complete_without_flush(u, failUpload, failComplete) ==
    IF failComplete
    THEN [ raised |-> "ClientError", u |-> u, sent |-> << >>, committed |-> FALSE ]
    ELSE [ raised |-> None, u |-> u, sent |-> << >>, committed |-> TRUE ]

\* complete(): failUpload / failComplete say whether upload_part and
\* complete_multipart_upload raise ClientError.  commit is the Parts list
\* handed to complete_multipart_upload (when the call succeeds).
complete(u, failUpload, failComplete) ==
    LET r == IF Len(u.records) > 0 THEN upload(u, failUpload)
             ELSE [ raised |-> None, u |-> u, sent |-> << >> ]
    IN  IF r.raised # None
        THEN [ raised |-> r.raised, u |-> r.u, sent |-> r.sent, committed |-> FALSE ]
        ELSE IF failComplete
        THEN [ raised |-> "ClientError", u |-> r.u, sent |-> r.sent, committed |-> FALSE ]
        ELSE [ raised |-> None, u |-> r.u, sent |-> r.sent, committed |-> TRUE ]

\* ------------------------------------------------------------ object store
\* create_multipart_upload(Bucket, Key): a new upload, its id the index.
StoreCreate(store, key) ==
    Append(store, [ Key |-> key, Parts |-> << >>, Completed |-> FALSE,
                    Committed |-> << >> ])

\* upload_part: a part with a number already present replaces it.
PutPart(parts, p) ==
    IF \E i \in 1..Len(parts) : parts[i].PartNumber = p.PartNumber
    THEN [i \in 1..Len(parts) |->
            IF parts[i].PartNumber = p.PartNumber THEN p ELSE parts[i]]
    ELSE Append(parts, p)

RECURSIVE PutParts(_, _)
PutParts(parts, sent) ==
    IF sent = << >> THEN parts ELSE PutParts(PutPart(parts, Head(sent)), Tail(sent))

StoreUpload(store, id, sent) ==
    [store EXCEPT ![id].Parts = PutParts(@, sent)]

\* complete_multipart_upload(MultipartUpload={"Parts": parts}).
StoreComplete(store, id, parts) ==
    [store EXCEPT ![id].Completed = TRUE, ![id].Committed = parts]

\* Data lines of a stored body (a header line holds column names only).
IsHeaderLine(line) == \A j \in 1..Len(line) : line[j] \in Keys
DataLines(body) == SelectSeq(body, LAMBDA line : ~IsHeaderLine(line))

\* --------------------------------------------------------------------- Init
Init ==
    /\ pc = "loop"
    /\ exc = None
    /\ part_records \in 1..MaxPartRecords
    /\ schemas = {}
    /\ uploaders = << >>
    /\ order = << >>
    /\ fin = 1
    /\ state_from_tap = NoState
    /\ stdout = << >>
    /\ mpus = << >>
    /\ last = [op |-> "start", stream |-> None, did_flush |-> FALSE, raised |-> None,
               verdict |-> None, record_count |-> 0]
    /\ added = [s \in Streams |-> << >>]
    /\ states = << >>
    /\ emitted = << >>
    /\ storeFailures = 0

\* ------------------------------------------------- process_message_stream
CanRead == pc = "loop"

\* Rows handed to the uploaders so far, over all streams.
RECURSIVE TotalAdded(_)
TotalAdded(S) ==
    IF S = {} THEN 0
    ELSE LET s == CHOOSE x \in S : TRUE IN Len(added[s]) + TotalAdded(S \ {s})

\* An exception leaves the for loop of main() and enters the finally block.
Raise(e) == pc' = "finally" /\ exc' = e

\* The call made in a step and what it returned: record_count is the second
\* element of add_record's result (0 where the code has None, or nothing).
RecordCall(op, s, flushed, raised, verdict, count) ==
    last' = [op |-> op, stream |-> s, did_flush |-> flushed, raised |-> raised,
             verdict |-> verdict, record_count |-> count]

RecordStep(op, s, flushed, raised, verdict) ==
    RecordCall(op, s, flushed, raised, verdict, 0)

Step(op, s, flushed, raised) == RecordStep(op, s, flushed, raised, None)

\* A line that is not JSON: JSONDecodeError is re-raised.
ReadMalformed ==
    /\ CanRead
    /\ Raise("JSONDecodeError")
    /\ Step("MALFORMED", None, FALSE, "JSONDecodeError")
    /\ UNCHANGED << part_records, schemas, uploaders, order, fin, state_from_tap,
                    stdout, mpus, added, states, emitted, storeFailures >>

\* SCHEMA: registers schema, validator and key properties; no event.
ReadSchema(s) ==
    /\ CanRead
    /\ schemas' = schemas \cup {s}
    /\ Step("SCHEMA", s, FALSE, None)
    /\ UNCHANGED << pc, exc, part_records, uploaders, order, fin, state_from_tap,
                    stdout, mpus, added, states, emitted, storeFailures >>

\* Mutant of KeepState: a pending state is not replaced.
KeepFirstState(old, new) == IF old = NoState THEN new ELSE old

\* main() on a STATE event: state_from_tap = record.
KeepState(old, new) == new

\* STATE: the event carries the whole message o; main() keeps it.
StateEvent(v) == [type |-> "STATE", value |-> v]

ReadState(v) ==
    /\ CanRead
    /\ Len(states) < MaxStates
    /\ v.bookmark = Len(states) + 1
    /\ state_from_tap' = KeepState(state_from_tap, StateEvent(v))
    /\ states' = Append(states, [ no |-> Len(states) + 1, value |-> v,
                                  rows |-> [s \in Streams |-> Len(added[s])],
                                  flushed |-> FALSE ])
    /\ Step("STATE", None, FALSE, None)
    /\ UNCHANGED << pc, exc, part_records, schemas, uploaders, order, fin,
                    stdout, mpus, added, emitted, storeFailures >>

\* ACTIVATE_VERSION and unknown message types: logged, no event, nothing of
\* the program's state changes.
ReadActivateVersion ==
    /\ CanRead
    /\ UNCHANGED vars

ReadUnknown ==
    /\ CanRead
    /\ UNCHANGED vars

\* Mutant of ValidationAborts: every validation failure aborts the run.
AnyFailureAborts(verdict) == verdict # "valid"

\* Whether the exception caught around validate() is re-raised: only one
\* whose type is named InvalidOperation.
ValidationAborts(verdict) == verdict = "InvalidOperation"

\* Mutant of NeedsUploader: a new uploader for every RECORD.
AlwaysNewUploader(s) == TRUE

\* Whether main() creates the uploader of stream s for this RECORD.
NeedsUploader(s) == s \notin DOMAIN uploaders

\* Mutant of HasSchema: any registered schema lets a RECORD through.
HasAnySchema(s) == schemas # {}

\* The RECORD gate of process_message_stream.
HasSchema(s) == s \in schemas

\* Mutant of ShouldEmit: the pending state is emitted after every add_record.
ShouldEmitWithoutFlush(did_flush) == state_from_tap # NoState

\* The emission test of the driver after add_record.
ShouldEmit(did_flush) == did_flush /\ state_from_tap # NoState

\* Mutant of EmitsAtShutdown: no final emission when an exception is in flight.
EmitsAtShutdownIfNoError == state_from_tap # NoState /\ exc = None

\* The emission test at the end of the finally block.
EmitsAtShutdown == state_from_tap # NoState

\* Lines written by one emission and their history entries.
Emission(at) ==
    /\ stdout' = stdout \o emit_state(state_from_tap)
    /\ emitted' = emitted \o
            [i \in 1..Len(emit_state(state_from_tap)) |-> [no |-> states[Len(states)].no, at |-> at]]

\* RECORD for stream s with flattened row `row`; verdict is the validator's
\* outcome, failCreate / failUpload whether create_multipart_upload and
\* upload_part raise ClientError.
ReadRecord(s, row, verdict, failCreate, failUpload) ==
    /\ CanRead
    /\ TotalAdded(Streams) < MaxRecords
    /\ IF ~HasSchema(s)
       THEN /\ Raise("Exception")
            /\ RecordStep("RECORD", s, FALSE, "Exception", None)
            /\ UNCHANGED << uploaders, order, mpus, added, stdout, emitted,
                            storeFailures >>
       ELSE IF ValidationAborts(verdict)
       THEN /\ Raise("InvalidOperation")
            /\ RecordStep("RECORD", s, FALSE, "InvalidOperation", verdict)
            /\ UNCHANGED << uploaders, order, mpus, added, stdout, emitted,
                            storeFailures >>
       ELSE IF NeedsUploader(s) /\ failCreate
       THEN /\ Raise("ClientError")
            /\ RecordStep("RECORD", s, FALSE, "ClientError", verdict)
            /\ storeFailures' = storeFailures + 1
            /\ UNCHANGED << uploaders, order, mpus, added, stdout, emitted >>
       ELSE LET isNew == NeedsUploader(s)
                store1 == IF isNew THEN StoreCreate(mpus, s) ELSE mpus
                u0 == IF isNew THEN NewUploader(Len(store1)) ELSE uploaders[s]
                r == add_record(u0, row, failUpload)
            IN  /\ uploaders' = (s :> r.u) @@ uploaders
                /\ order' = IF isNew THEN Append(order, s) ELSE order
                /\ mpus' = StoreUpload(store1, u0.mpu_id, r.sent)
                /\ added' = [added EXCEPT ![s] = Append(@, row)]
                /\ storeFailures' =
                        storeFailures + (IF r.raised = "ClientError" THEN 1 ELSE 0)
                /\ RecordCall("RECORD", s, r.did_flush, r.raised, verdict,
                              IF r.raised = None THEN r.record_count ELSE 0)
                /\ IF r.raised # None
                   THEN Raise(r.raised) /\ UNCHANGED << stdout, emitted >>
                   ELSE /\ UNCHANGED << pc, exc >>
                        /\ IF ShouldEmit(r.did_flush)
                           THEN Emission("add_record")
                           ELSE UNCHANGED << stdout, emitted >>
    /\ states' = IF last'.did_flush
                 THEN [i \in 1..Len(states) |-> [states[i] EXCEPT !.flushed = TRUE]]
                 ELSE states
    /\ UNCHANGED << part_records, schemas, fin, state_from_tap >>

\* The input ends: the for loop ends normally.
EndOfInput ==
    /\ pc = "loop"
    /\ pc' = "finally"
    /\ Step("EOF", None, FALSE, None)
    /\ UNCHANGED << exc, part_records, schemas, uploaders, order, fin,
                    state_from_tap, stdout, mpus, added, states, emitted,
                    storeFailures >>

\* ------------------------------------------------------------ finally block
\* One iteration of `for u in uploaders.values(): u.complete()`.  An
\* exception raised by complete() leaves the finally block at once.
FinallyComplete(failUpload, failComplete) ==
    /\ pc = "finally"
    /\ fin <= Len(order)
    /\ LET s == order[fin]
           u == uploaders[s]
           r == complete(u, failUpload, failComplete)
           store1 == StoreUpload(mpus, u.mpu_id, r.sent)
       IN  /\ uploaders' = [uploaders EXCEPT ![s] = r.u]
           /\ mpus' = IF r.committed THEN StoreComplete(store1, u.mpu_id, r.u.parts)
                      ELSE store1
           /\ storeFailures' =
                   storeFailures + (IF r.raised = "ClientError" THEN 1 ELSE 0)
           /\ Step("complete", s, r.sent # << >>, r.raised)
           /\ IF r.raised # None
              THEN pc' = "done" /\ exc' = r.raised /\ fin' = fin
              ELSE pc' = pc /\ exc' = exc /\ fin' = fin + 1
    /\ UNCHANGED << part_records, schemas, order, state_from_tap, stdout,
                    added, states, emitted >>

\* After the loop over the uploaders: the pending state is emitted and the
\* exception in flight, if any, propagates.
FinallyEmit ==
    /\ pc = "finally"
    /\ fin > Len(order)
    /\ pc' = "done"
    /\ IF EmitsAtShutdown
       THEN Emission("shutdown")
       ELSE UNCHANGED << stdout, emitted >>
    /\ Step("emit", None, FALSE, None)
    /\ UNCHANGED << exc, part_records, schemas, uploaders, order, fin,
                    state_from_tap, mpus, added, states, storeFailures >>

\* Whether a step reaches s3.create_multipart_upload / s3.upload_part at all:
\* only then can the call fail.
Outcomes(callMade) == IF callMade THEN BOOLEAN ELSE {FALSE}

RecordCreates(s, verdict) ==
    HasSchema(s) /\ ~ValidationAborts(verdict) /\ NeedsUploader(s)

RecordUploads(s, row, verdict) ==
    /\ HasSchema(s) /\ ~ValidationAborts(verdict)
    /\ LET u0 == IF s \in DOMAIN uploaders THEN uploaders[s] ELSE NewUploader(0)
           u1 == [u0 EXCEPT !.records = Append(@, row)]
       IN  ReachedThreshold(u1) /\ CsvWritable(u1.records)

CompleteUploads ==
    /\ fin <= Len(order)
    /\ uploaders[order[fin]].records # << >>
    /\ CsvWritable(uploaders[order[fin]].records)

Next ==
    \/ ReadMalformed
    \/ \E s \in Streams : ReadSchema(s)
    \/ \E s \in Streams, row \in Rows, verdict \in Verdicts :
          \E failCreate \in Outcomes(RecordCreates(s, verdict)),
             failUpload \in Outcomes(RecordUploads(s, row, verdict)) :
                ReadRecord(s, row, verdict, failCreate, failUpload)
    \/ \E v \in StateValues : ReadState(v)
    \/ ReadActivateVersion
    \/ ReadUnknown
    \/ EndOfInput
    \/ \E failUpload \in Outcomes(CompleteUploads), failComplete \in BOOLEAN :
            FinallyComplete(failUpload, failComplete)
    \/ FinallyEmit

Spec == Init /\ [][Next]_vars

\* ------------------------------------------------------- derived quantities
\* Rows held by the uploaded parts of the multipart uploads of stream s.
RECURSIVE PartRowCount(_)
PartRowCount(parts) ==
    IF parts = << >> THEN 0
    ELSE Len(DataLines(Head(parts).Body)) + PartRowCount(Tail(parts))

RECURSIVE StoredRowCount(_, _)
StoredRowCount(store, s) ==
    IF store = << >> THEN 0
    ELSE (IF Head(store).Key = s THEN PartRowCount(Head(store).Parts) ELSE 0)
            + StoredRowCount(Tail(store), s)

\* The step uploaded one more part for stream s and emptied its buffer.
FlushedNow(s) ==
    /\ s \in DOMAIN uploaders'
    /\ LET u == uploaders'[s]
           before == IF s \in DOMAIN uploaders THEN Len(uploaders[s].parts) ELSE 0
       IN  /\ Len(u.parts) = before + 1
           /\ u.records = << >>
           /\ Len(mpus'[u.mpu_id].Parts) = before + 1

AllCompleted ==
    \A s \in DOMAIN uploaders : mpus[uploaders[s].mpu_id].Completed

\* Number of lines of stdout that carry the n-th STATE message.
RECURSIVE EmitCount(_, _)
EmitCount(es, n) ==
    IF es = << >> THEN 0
    ELSE (IF Head(es).no = n THEN 1 ELSE 0) + EmitCount(Tail(es), n)

Ceil(n, t) == (n + t - 1) \div t

TypeOK ==
    /\ pc \in {"loop", "finally", "done"}
    /\ DOMAIN uploaders \subseteq Streams
    /\ Len(stdout) = Len(emitted)

\* ------------------------------------------------------------------ claims

\* C1: whenever a checkpoint is emitted, for every stream all rows whose
\* RECORD preceded the checkpoint's STATE message are already held by
\* uploaded parts of that stream.
C1_EmitOnlyAfterAllStreamsFlushed ==
    [][ stdout' # stdout =>
            \A s \in Streams :
                states[Len(states)].rows[s] <= StoredRowCount(mpus', s) ]_vars

\* C2: every emission is one line and happens either directly after an
\* add_record whose flush uploaded a part, or at shutdown after complete()
\* succeeded for every uploader; a STATE message, an add_record without a
\* flush and a raising flush or complete emit nothing.
C2_EmissionPositions ==
    [][ /\ stdout' # stdout =>
            /\ Len(stdout') = Len(stdout) + 1
            /\ \/ /\ pc = "loop" /\ pc' = "loop" /\ exc' = None
                  /\ last'.op = "RECORD" /\ last'.did_flush
                  /\ FlushedNow(last'.stream)
               \/ /\ pc = "finally" /\ pc' = "done" /\ exc' = exc
                  /\ fin > Len(order)
                  /\ AllCompleted
                  /\ mpus' = mpus /\ uploaders' = uploaders
        /\ state_from_tap' # state_from_tap => stdout' = stdout
        /\ (last'.op = "RECORD" /\ ~last'.did_flush) => stdout' = stdout
        /\ last'.raised # None => stdout' = stdout ]_vars

C2_Witness ==
    /\ pc = "done"
    /\ \E i, j \in 1..Len(emitted) :
          emitted[i].at = "add_record" /\ emitted[j].at = "shutdown"

\* A STATE message with no add_record flush after it is not emitted before
\* shutdown (used by C3).
NotEmittedBeforeFlush ==
    \A n \in 1..Len(states) :
        (~states[n].flushed /\ pc # "done") => EmitCount(emitted, n) = 0

\* The run ended with every uploader finalized and the final emit executed.
FinishedFinalized == pc = "done" /\ fin > Len(order) /\ AllCompleted

EmittedOnceAtShutdown(n) ==
    /\ EmitCount(emitted, n) = 1
    /\ \A i \in 1..Len(emitted) : emitted[i].no = n => emitted[i].at = "shutdown"

\* C3 as stated: a checkpoint is not emitted before the next flush, and
\* every checkpoint with no flushing RECORD after it is emitted exactly once,
\* at shutdown, when the run ends with all uploaders finalized.
C3_EveryUnflushedStateEmittedOnce ==
    /\ NotEmittedBeforeFlush
    /\ FinishedFinalized =>
          \A n \in 1..Len(states) : ~states[n].flushed => EmittedOnceAtShutdown(n)

\* C3 amended: the same for the checkpoint of the last STATE message, the
\* one no later STATE message has replaced.
C3_LastUnflushedStateEmittedOnce ==
    /\ NotEmittedBeforeFlush
    /\ (FinishedFinalized /\ states # << >> /\ ~states[Len(states)].flushed)
          => EmittedOnceAtShutdown(Len(states))

C3_Witness ==
    /\ FinishedFinalized
    /\ order # << >>
    /\ states # << >> /\ ~states[Len(states)].flushed
    /\ emitted = << [no |-> Len(states), at |-> "shutdown"] >>

\* C4: every received checkpoint appears at most once in the output.
C4_EachCheckpointEmittedAtMostOnce ==
    \A i, j \in 1..Len(emitted) : i # j => emitted[i].no # emitted[j].no

\* C5: every emitted line is the JSON document of the value of the STATE
\* message it releases.
C5_EmitsStateValue ==
    \A i \in 1..Len(stdout) :
        stdout[i] = json_dumps(states[emitted[i].no].value)

\* C6: without object-store failures and with threshold T >= 1, a completed
\* uploader that received N >= 1 rows has ceil(N/T) parts, all of T rows but
\* the last, which has N mod T rows (T when T divides N).
C6_PartCountAndSizes ==
    \A s \in DOMAIN uploaders :
        LET up == mpus[uploaders[s].mpu_id]
            N == Len(added[s])
            T == part_records
        IN  (storeFailures = 0 /\ up.Completed /\ T >= 1 /\ N >= 1) =>
                /\ Len(up.Parts) = Ceil(N, T)
                /\ Len(up.Committed) = Ceil(N, T)
                /\ \A i \in 1..Len(up.Parts) :
                      Len(DataLines(up.Parts[i].Body)) =
                          IF i < Ceil(N, T) \/ N % T = 0 THEN T ELSE N % T

C6_Witness ==
    \E s \in DOMAIN uploaders :
        /\ storeFailures = 0 /\ part_records = 2 /\ Len(added[s]) = 3
        /\ mpus[uploaders[s].mpu_id].Completed
        /\ Len(mpus[uploaders[s].mpu_id].Parts) = 2

\* C7: the parts an uploader has recorded, the parts its upload holds in the
\* store and the list committed by complete() are numbered 1, 2, 3, ... in
\* order, also after failed upload attempts.
C7_PartsNumberedDensely ==
    \A s \in DOMAIN uploaders :
        LET u == uploaders[s]
            up == mpus[u.mpu_id]
        IN  /\ \A i \in 1..Len(u.parts) : u.parts[i].PartNumber = i
            /\ \A i \in 1..Len(up.Parts) : up.Parts[i].PartNumber = i
            /\ Len(up.Parts) = Len(u.parts)
            /\ up.Completed => up.Committed = u.parts

\* An uploader with two parts, the second uploaded after a failed attempt.
C7_Witness ==
    \E s \in DOMAIN uploaders :
        /\ Len(uploaders[s].parts) = 2
        /\ uploaders[s].total_bytes >
              uploaders[s].parts[1].ETag + uploaders[s].parts[2].ETag
        /\ mpus[uploaders[s].mpu_id].Completed

\* C8: in every uploaded part, the first line is a header line exactly when
\* the part is number 1, and no other line is a header line.
C8_HeaderOnlyInPartOne ==
    \A id \in 1..Len(mpus) :
        \A i \in 1..Len(mpus[id].Parts) :
            LET p == mpus[id].Parts[i]
            IN  /\ IsHeaderLine(p.Body[1]) <=> p.PartNumber = 1
                /\ \A k \in 2..Len(p.Body) : ~IsHeaderLine(p.Body[k])

\* The first upload attempt of stream last.stream failed and its part 1 was
\* uploaded by complete().
C8_Witness ==
    /\ last.op = "complete" /\ last.did_flush
    /\ LET u == uploaders[last.stream]
       IN  /\ Len(u.parts) = 1
           /\ u.total_bytes > u.parts[1].ETag
           /\ IsHeaderLine(mpus[u.mpu_id].Parts[1].Body[1])

\* C9: a RECORD for a stream without a registered schema raises at once:
\* no uploader is created, nothing is buffered, uploaded or emitted; hence
\* only streams with a schema have an uploader.
C9_RecordBeforeSchemaAborts ==
    [][ /\ (pc = "loop" /\ last'.op = "RECORD" /\ last'.stream \notin schemas) =>
            /\ pc' = "finally" /\ exc' = "Exception"
            /\ UNCHANGED << uploaders, order, mpus, added, stdout >>
        /\ DOMAIN uploaders' \subseteq schemas' ]_vars

C9_Witness ==
    /\ exc = "Exception" /\ last.op = "RECORD"
    /\ last.stream \notin schemas
    /\ schemas # {} /\ order # << >>

\* C10: when an error raised in the loop is in flight, main() does not end
\* before complete() has been attempted for every uploader.
C10_FinalizeAllOnError ==
    [][ (pc = "finally" /\ exc # None /\ pc' = "done") =>
            \A i \in 1..Len(order) : i <= fin' ]_vars

\* C15: a RECORD of a registered stream that fails validation aborts the run
\* only for the numeric-precision failure (InvalidOperation); with any other
\* validation failure the row is handed to the stream's uploader (or the
\* creation of that uploader fails, as it would for a valid record).
C15_OnlyPrecisionFailureAborts ==
    [][ (pc = "loop" /\ last'.op = "RECORD" /\ last'.stream \in schemas) =>
            LET s == last'.stream
                before == IF s \in DOMAIN uploaders
                          THEN uploaders[s].total_records ELSE 0
            IN  /\ last'.verdict = "InvalidOperation" =>
                      /\ pc' = "finally" /\ exc' = "InvalidOperation"
                      /\ UNCHANGED << added, uploaders, mpus >>
                /\ last'.verdict = "ValidationError" =>
                      /\ exc' # "InvalidOperation"
                      /\ \/ /\ s \notin DOMAIN uploaders /\ exc' = "ClientError"
                            /\ UNCHANGED << added, uploaders, mpus >>
                         \/ /\ Len(added'[s]) = Len(added[s]) + 1
                            /\ uploaders'[s].total_records = before + 1 ]_vars

C15_Witness ==
    /\ last.op = "RECORD" /\ last.verdict = "ValidationError"
    /\ last.raised = None /\ pc = "loop"
    /\ uploaders[last.stream].records # << >>

\* C16: one checkpoint is pending at a time, the one of the last STATE
\* message; every emission writes that one; a checkpoint replaced by a later
\* STATE message with no flush in between has not been emitted and is never
\* emitted afterwards.
C16_NewStateSupersedes ==
    [][ /\ state_from_tap' =
              IF states' = << >> THEN NoState
              ELSE StateEvent(states'[Len(states')].value)
        /\ stdout' # stdout =>
              /\ Len(stdout') = Len(stdout) + 1
              /\ emitted'[Len(emitted')].no = Len(states)
              /\ stdout'[Len(stdout')] = json_dumps(state_from_tap')
        /\ \A n \in 1..(Len(states) - 1) :
              EmitCount(emitted', n) = EmitCount(emitted, n)
        /\ (Len(states') = Len(states) + 1 /\ states # << >>
              /\ ~states[Len(states)].flushed) =>
                EmitCount(emitted', Len(states)) = 0 ]_vars

\* Two STATE messages with no flush between them, then an emission.
C16_Witness ==
    /\ Len(states) = 2
    /\ EmitCount(emitted, 1) = 0
    /\ EmitCount(emitted, 2) >= 1
    /\ last.op = "RECORD" /\ last.did_flush

\* Number of multipart uploads the store holds for key s, and of open ones.
RECURSIVE UploadCount(_, _, _)
UploadCount(store, s, openOnly) ==
    IF store = << >> THEN 0
    ELSE (IF Head(store).Key = s /\ (~openOnly \/ ~Head(store).Completed)
          THEN 1 ELSE 0) + UploadCount(Tail(store), s, openOnly)

\* C17: a stream has at most one uploader and one multipart upload, created
\* by the stream's first RECORD and never by a SCHEMA message; a SCHEMA
\* message changes no uploader and no upload.
C17_OneUploaderPerStream ==
    [][ /\ \A s \in Streams :
              /\ UploadCount(mpus', s, FALSE) = (IF s \in DOMAIN uploaders' THEN 1 ELSE 0)
              /\ UploadCount(mpus', s, TRUE) <= 1
              /\ s \in DOMAIN uploaders' => mpus'[uploaders'[s].mpu_id].Key = s
        /\ Len(order') = Cardinality(DOMAIN uploaders')
        /\ Len(mpus') # Len(mpus) =>
              /\ last'.op = "RECORD"
              /\ added[last'.stream] = << >>
              /\ Len(mpus') = Len(mpus) + 1
        /\ last'.op = "SCHEMA" => UNCHANGED << uploaders, order, mpus >> ]_vars

\* A SCHEMA message for a stream whose uploader holds buffered rows.
C17_Witness ==
    /\ last.op = "SCHEMA"
    /\ last.stream \in DOMAIN uploaders
    /\ uploaders[last.stream].records # << >>

\* The stream and the batch upload() works on in the step being taken, and
\* whether the step calls upload() at all.
StepStream == last'.stream
OldRecords ==
    IF StepStream \in DOMAIN uploaders THEN uploaders[StepStream].records ELSE << >>
OldParts ==
    IF StepStream \in DOMAIN uploaders THEN uploaders[StepStream].parts ELSE << >>
RowAdded ==
    /\ pc = "loop" /\ last'.op = "RECORD"
    /\ Len(added'[StepStream]) = Len(added[StepStream]) + 1
StepBatch ==
    IF RowAdded
    THEN Append(OldRecords, added'[StepStream][Len(added'[StepStream])])
    ELSE OldRecords
FlushAttempted ==
    \/ RowAdded /\ Len(StepBatch) >= part_records
    \/ pc = "finally" /\ last'.op = "complete" /\ OldRecords # << >>

\* C13: every batch flushed as one part is written under the columns of its
\* first row, in that row's key order: a missing column renders empty, and a
\* row with a key outside these columns is written too, the part being
\* uploaded (unless the object store fails).
C13_ColumnsOfFirstRow ==
    [][ (FlushAttempted /\ last'.raised # "ClientError") =>
            LET u == uploaders'[StepStream]
                cols == KeysOf(StepBatch[1])
            IN  /\ last'.raised = None
                /\ Len(u.parts) = Len(OldParts) + 1
                /\ LET body == mpus'[u.mpu_id].Parts[Len(u.parts)].Body
                       data == IF Len(u.parts) = 1 THEN Tail(body) ELSE body
                   IN  /\ Len(u.parts) = 1 => body[1] = cols
                       /\ Len(data) = Len(StepBatch)
                       /\ \A i \in 1..Len(data) :
                             /\ Len(data[i]) = Len(cols)
                             /\ \A j \in 1..Len(cols) :
                                   data[i][j] = ValueAt(StepBatch[i], cols[j]) ]_vars

\* The text of a finalized object: the bodies of its parts in part order.
RECURSIVE ObjectLines(_)
ObjectLines(parts) ==
    IF parts = << >> THEN << >>
    ELSE Head(parts).Body \o ObjectLines(Tail(parts))

\* Reading field k of a data line under a header, as a delimited-text reader
\* does: the cell at the position of k in the header.
ReadBack(header, line, k) ==
    IF \E j \in 1..Len(header) : header[j] = k /\ j <= Len(line)
    THEN line[CHOOSE j \in 1..Len(header) : header[j] = k]
    ELSE "(missing)"

\* C14: the text of every finalized object, read with the header of part 1,
\* yields one data line per input row of the stream, in arrival order, with
\* the original value of every field of the row.
C14_RoundTrip ==
    \A s \in DOMAIN uploaders :
        LET up == mpus[uploaders[s].mpu_id]
            lines == ObjectLines(up.Parts)
        IN  up.Completed =>
                /\ Len(lines) = Len(added[s]) + 1
                /\ \A i \in 1..Len(added[s]) :
                      \A f \in 1..Len(added[s][i]) :
                          ReadBack(lines[1], lines[i + 1], added[s][i][f][1])
                              = added[s][i][f][2]

\* The data lines of all parts of an upload, in part order.
RECURSIVE StoredLines(_)
StoredLines(parts) ==
    IF parts = << >> THEN << >>
    ELSE DataLines(Head(parts).Body) \o StoredLines(Tail(parts))

\* The values of a row in key order; the non-empty cells of a line.
ValuesOf(row) == [i \in 1..Len(row) |-> row[i][2]]
CellsOf(line) == SelectSeq(line, LAMBDA c : c # "")

\* C20: for every stream, the rows of its uploaded parts in part order
\* followed by the rows in its buffer are the rows added, in arrival order;
\* and when main() ends without error every uploader is completed with an
\* empty buffer and its recorded parts committed.
C20_NoRowLostOrDuplicated ==
    /\ \A s \in Streams :
          IF s \in DOMAIN uploaders
          THEN LET u == uploaders[s]
                   up == mpus[u.mpu_id]
                   lines == StoredLines(up.Parts)
               IN  /\ Len(up.Parts) = Len(u.parts)
                   /\ Len(lines) + Len(u.records) = Len(added[s])
                   /\ \A i \in 1..Len(lines) : CellsOf(lines[i]) = ValuesOf(added[s][i])
                   /\ \A j \in 1..Len(u.records) :
                         u.records[j] = added[s][Len(lines) + j]
                   /\ u.total_records = Len(added[s])
          ELSE added[s] = << >>
    /\ (pc = "done" /\ exc = None) =>
          \A s \in DOMAIN uploaders :
              /\ uploaders[s].records = << >>
              /\ mpus[uploaders[s].mpu_id].Completed
              /\ mpus[uploaders[s].mpu_id].Committed = uploaders[s].parts

\* A run that ended without error with a stream of three rows in two parts.
C20_Witness ==
    /\ pc = "done" /\ exc = None
    /\ \E s \in DOMAIN uploaders :
          /\ Len(added[s]) = 3
          /\ Len(mpus[uploaders[s].mpu_id].Parts) = 2

\* ------------------------------------------------- S3MultipartUploader API
\* A second specification: one S3MultipartUploader for stream "t" and a
\* client that calls add_record, upload and complete in any order and goes on
\* after an exception.  The variables of main() keep their initial values.
TheStream == "t"

\* The object store rejects upload_part and complete_multipart_upload for an
\* upload id that has been completed (NoSuchUpload, a ClientError).
StoreRejects(u) == mpus[u.mpu_id].Completed

\* Whether a call may be made with a failing store call: failures are
\* counted and capped.
MayFail == storeFailures < MaxFailures

InitUploader ==
    /\ pc = "api"
    /\ exc = None
    /\ part_records \in 1..MaxPartRecords
    /\ schemas = {}
    /\ uploaders = (TheStream :> NewUploader(1))
    /\ order = << TheStream >>
    /\ fin = 1
    /\ state_from_tap = NoState
    /\ stdout = << >>
    /\ mpus = StoreCreate(<< >>, TheStream)
    /\ last = [op |-> "start", stream |-> None, did_flush |-> FALSE, raised |-> None,
               verdict |-> None, record_count |-> 0]
    /\ added = [s \in Streams |-> << >>]
    /\ states = << >>
    /\ emitted = << >>
    /\ storeFailures = 0

\* The effect of one call of the uploader's API on uploader and store.
ApiEffect(op, r, flushed, count) ==
    /\ uploaders' = [uploaders EXCEPT ![TheStream] = r.u]
    /\ storeFailures' = storeFailures + (IF r.raised = "ClientError" THEN 1 ELSE 0)
    /\ r.raised = "ClientError" => MayFail
    /\ RecordCall(op, TheStream, flushed, r.raised, None, count)
    /\ UNCHANGED << pc, exc, part_records, schemas, order, fin, state_from_tap,
                    stdout, states, emitted >>

\* uploader.add_record(row)
CallAddRecord(row, fail) ==
    /\ pc = "api"
    /\ Len(added[TheStream]) < MaxRecords
    /\ LET u == uploaders[TheStream]
           r == add_record(u, row, fail \/ StoreRejects(u))
       IN  /\ fail => r.raised = "ClientError"
           /\ mpus' = StoreUpload(mpus, u.mpu_id, r.sent)
           /\ added' = [added EXCEPT ![TheStream] = Append(@, row)]
           /\ ApiEffect("add_record", r, r.did_flush,
                        IF r.raised = None THEN r.record_count ELSE 0)

\* uploader.upload()
CallUpload(fail) ==
    /\ pc = "api"
    /\ LET u == uploaders[TheStream]
           r == upload(u, fail \/ StoreRejects(u))
       IN  /\ fail => r.raised = "ClientError"
           /\ mpus' = StoreUpload(mpus, u.mpu_id, r.sent)
           /\ UNCHANGED added
           /\ ApiEffect("upload", r, r.raised = None, 0)

\* uploader.complete()
CallComplete(failUpload, failComplete) ==
    /\ pc = "api"
    /\ LET u == uploaders[TheStream]
           r == complete(u, failUpload \/ StoreRejects(u),
                         failComplete \/ StoreRejects(u))
           store1 == StoreUpload(mpus, u.mpu_id, r.sent)
       IN  /\ failUpload => (r.raised = "ClientError" /\ r.sent = << >>)
           /\ failComplete => (r.raised = "ClientError" /\ ~failUpload)
           /\ mpus' = IF r.committed THEN StoreComplete(store1, u.mpu_id, r.u.parts)
                      ELSE store1
           /\ UNCHANGED added
           /\ ApiEffect("complete", r, r.sent # << >>, 0)

NextUploader ==
    \/ \E row \in Rows, fail \in BOOLEAN : CallAddRecord(row, fail)
    \/ \E fail \in BOOLEAN : CallUpload(fail)
    \/ \E failUpload, failComplete \in BOOLEAN : CallComplete(failUpload, failComplete)

SpecUploader == InitUploader /\ [][NextUploader]_vars

\* The uploader of the API specification before and after a step, and the
\* batch a flush of the step works on.
ApiBefore == uploaders[TheStream]
ApiAfter == uploaders'[TheStream]
ApiBatch ==
    IF last'.op = "add_record"
    THEN Append(ApiBefore.records, added'[TheStream][Len(added'[TheStream])])
    ELSE ApiBefore.records

\* C11: once complete() has returned for an uploader, a later add_record on
\* it does not accept the row: no row is buffered and no further part is
\* uploaded to the committed upload.
C11_ClosedAcceptsNoRow ==
    [][ (mpus[ApiBefore.mpu_id].Completed /\ last'.op = "add_record") =>
            /\ ApiAfter.records = ApiBefore.records
            /\ ApiAfter.parts = ApiBefore.parts
            /\ mpus'[ApiBefore.mpu_id].Parts = mpus[ApiBefore.mpu_id].Parts ]_vars

\* C12: upload() on an uploader with an empty buffer raises no error, sends
\* no part and leaves parts, buffer and counters unchanged.
C12_EmptyUploadIsNoOp ==
    [][ (last'.op = "upload" /\ ApiBefore.records = << >>) =>
            /\ last'.raised = None
            /\ ApiAfter = ApiBefore
            /\ mpus' = mpus ]_vars

\* C18 (as stated): after an add_record that returns normally the buffer
\* holds fewer than T rows; the call that makes the buffer reach T rows
\* flushes the whole buffer and reports (True, T); every other call reports
\* no flush.
C18_FlushReportsThreshold ==
    [][ (last'.op = "add_record" /\ last'.raised = None) =>
            /\ Len(ApiAfter.records) < part_records
            /\ IF Len(ApiBatch) = part_records
               THEN /\ last'.did_flush /\ last'.record_count = part_records
                    /\ ApiAfter.records = << >>
                    /\ Len(ApiAfter.parts) = Len(ApiBefore.parts) + 1
               ELSE /\ ~last'.did_flush /\ last'.record_count = 0
                    /\ Len(ApiAfter.parts) = Len(ApiBefore.parts) ]_vars

\* C18 (amended): after an add_record that returns normally the buffer
\* holds fewer than T rows; the call that makes the buffer hold at least T
\* rows flushes the whole buffer and reports (True, n) with n the number of
\* rows flushed (T, or more when an earlier flush failed and left its rows
\* in the buffer); every other call reports no flush.
C18_FlushReportsBatchSize ==
    [][ (last'.op = "add_record" /\ last'.raised = None) =>
            /\ Len(ApiAfter.records) < part_records
            /\ IF Len(ApiBatch) >= part_records
               THEN /\ last'.did_flush /\ last'.record_count = Len(ApiBatch)
                    /\ ApiAfter.records = << >>
                    /\ Len(ApiAfter.parts) = Len(ApiBefore.parts) + 1
               ELSE /\ ~last'.did_flush /\ last'.record_count = 0
                    /\ ApiAfter.records = ApiBatch
                    /\ Len(ApiAfter.parts) = Len(ApiBefore.parts) ]_vars

\* An add_record flushed more rows than the threshold.
C18_Witness ==
    /\ pc = "api"
    /\ last.op = "add_record" /\ last.did_flush
    /\ last.record_count = part_records + 1

\* The bytes of the parts held by the store.
RECURSIVE PartBytes(_)
PartBytes(parts) ==
    IF parts = << >> THEN 0 ELSE SizeOf(Head(parts).Body) + PartBytes(Tail(parts))

\* C19: a flush whose upload_part fails leaves the buffered rows and the
\* recorded parts as they are and records no part; a flush that succeeds,
\* also after a failed one, sends all buffered rows, in order, as the part
\* numbered one more than the number of recorded parts.
C19_FailedUploadKeepsRows ==
    [][ /\ (last'.raised = "ClientError" /\ ~last'.did_flush) =>
              /\ ApiAfter.records = ApiBatch
              /\ ApiAfter.parts = ApiBefore.parts
              /\ mpus'[ApiBefore.mpu_id].Parts = mpus[ApiBefore.mpu_id].Parts
        /\ last'.did_flush =>
              LET n == Len(ApiBefore.parts) + 1
                  stored == mpus'[ApiBefore.mpu_id].Parts
              IN  /\ Len(ApiAfter.parts) = n
                  /\ ApiAfter.parts[n].PartNumber = n
                  /\ Len(stored) = n
                  /\ stored[n].PartNumber = n
                  /\ ApiAfter.records = << >>
                  /\ LET lines == DataLines(stored[n].Body)
                     IN  /\ Len(lines) = Len(ApiBatch)
                         /\ \A i \in 1..Len(lines) :
                               CellsOf(lines[i]) = ValuesOf(ApiBatch[i]) ]_vars

\* A flush succeeded after a failed upload_part had left rows buffered: the
\* uploader counted more bytes than the store holds.
C19_Witness ==
    /\ pc = "api"
    /\ last.did_flush
    /\ uploaders[TheStream].records = << >>
    /\ uploaders[TheStream].total_bytes
          > PartBytes(mpus[uploaders[TheStream].mpu_id].Parts)
====
